---- MODULE Spec2Model ----
(***************************************************************************)
(* Construction of the realros task environments MyRealTaskEnv and         *)
(* MyRealTaskGoalEnv: the roscore negotiation of __init__ (default-port    *)
(* launch, new-roscore launch, attach to a given port, auto-detect), the   *)
(* node name, the node registration, the goal observation space, the call  *)
(* of the base environment, and the NotImplementedError stubs.             *)
(*                                                                         *)
(* A thread of control constructs one environment at a time; its position *)
(* in __init__ is pc[t].  ROS_MASTER_URI (master) and the set of running   *)
(* roscores (running) are shared by all threads of the process.            *)
(***************************************************************************)
EXTENDS Integers, Sequences, FiniteSets, TLC

VARIABLES
    running,            \* ports (decimal text) at which a roscore is running
    master,             \* port of ROS_MASTER_URI, the process-wide client address
    pc,                 \* pc[t]: position of thread t in __init__
    cls,                \* cls[t]: class under construction
    overridden,         \* overridden[t]: stubs the concrete task class overrides
    kwargs,             \* kwargs[t]: keyword arguments the caller supplied
    pre,                \* pre[t]: running and master when __init__ was entered
    site,               \* site[t]: call site of _launch_roscore (return address)
    port,               \* port[t]: parameter `port` of _launch_roscore
    launch_default,     \* launch_default[t]: parameter `default_port` of _launch_roscore
    launched,           \* launched[t]: local `ros_port` of _launch_roscore
    ros_port,           \* ros_port[t]: local `ros_port` of __init__
    node_name,          \* node_name[t]: self.node_name ("" while unset)
    observation_space,  \* observation_space[t]: keys of self.observation_space
    trace,              \* trace[t]: collaborator calls of this construction, in order
    err,                \* err[t]: exception that ended the construction or the last call
    last,               \* last[t]: outcome of the last extension-point call
    prior,              \* resolved port of the latest earlier construction that had one
    concurrent          \* concurrent[t]: another thread was in __init__ during this one

vars == <<running, master, pc, cls, overridden, kwargs, pre, site, port,
          launch_default, launched, ros_port, node_name, observation_space,
          trace, err, last, prior, concurrent>>

history == <<prior, concurrent>>

(***************************************************************************)
(* Bounds and program constants.                                           *)
(***************************************************************************)
NumPorts == 2
MaxOverridden == 1

DefaultPort == 11311

Threads == {"t1", "t2"}
MainThread == "t1"

(***************************************************************************)
(* Python values, tagged by type.                                          *)
(***************************************************************************)
None == [type |-> "NoneType"]
PyStr(s) == [type |-> "str", s |-> s]
PyInt(n) == [type |-> "int", n |-> n]
PyBool(b) == [type |-> "bool", b |-> b]

Truthy(v) ==
    CASE v.type = "NoneType" -> FALSE
      [] v.type = "bool" -> v.b
      [] v.type = "int" -> v.n # 0
      [] v.type = "str" -> v.s # ""

Repr(v) ==
    CASE v.type = "NoneType" -> "None"
      [] v.type = "bool" -> IF v.b THEN "True" ELSE "False"
      [] v.type = "int" -> ToString(v.n)
      [] v.type = "str" -> "'" \o v.s \o "'"

\* str(v) of a port value
PortText(v) == IF v.type = "int" THEN ToString(v.n) ELSE v.s

PortTexts == {ToString(DefaultPort + i) : i \in 0 .. (NumPorts - 1)}

(***************************************************************************)
(* The signature of __init__: defaults of the three roscore parameters.    *)
(***************************************************************************)
Defaults ==
    [new_roscore |-> PyBool(TRUE), roscore_port |-> None, default_port |-> PyBool(FALSE)]

ParamNames == {"new_roscore", "roscore_port", "default_port"}

Supplied(n) ==
    IF n = "roscore_port" THEN {PyStr(p) : p \in PortTexts}
    ELSE {PyBool(TRUE), PyBool(FALSE)}

AllValues == UNION {Supplied(n) : n \in ParamNames}

KwargsSet ==
    {k \in UNION {[D -> AllValues] : D \in SUBSET ParamNames} :
        \A n \in DOMAIN k : k[n] \in Supplied(n)}

Arg(t, n) == IF n \in DOMAIN kwargs[t] THEN kwargs[t][n] ELSE Defaults[n]

Classes == {"MyRealTaskEnv", "MyRealTaskGoalEnv"}

\* The methods each template defines with the body `raise NotImplementedError()`
Stubs(c) ==
    IF c = "MyRealTaskEnv"
    THEN {"_set_init_params", "_set_action", "_get_observation", "_get_reward",
          "_compute_terminated", "_compute_truncated", "_get_params"}
    ELSE {"_set_init_params", "_set_action", "_get_observation", "_get_achieved_goal",
          "_get_desired_goal", "compute_reward", "compute_terminated",
          "compute_truncated", "_get_params"}

Ev(op, arg, flag, res) == [op |-> op, arg |-> arg, flag |-> flag, res |-> res]

NoCall == [point |-> "", outcome |-> ""]

NoKwargs == [n \in {} |-> None]

Init ==
    /\ running \in SUBSET PortTexts
    /\ master \in PortTexts
    /\ pc = [t \in Threads |-> "idle"]
    /\ cls = [t \in Threads |-> "MyRealTaskEnv"]
    /\ overridden = [t \in Threads |-> {}]
    /\ kwargs = [t \in Threads |-> NoKwargs]
    /\ pre = [t \in Threads |-> [running |-> {}, master |-> ""]]
    /\ site = [t \in Threads |-> ""]
    /\ port = [t \in Threads |-> None]
    /\ launch_default = [t \in Threads |-> PyBool(FALSE)]
    /\ launched = [t \in Threads |-> None]
    /\ ros_port = [t \in Threads |-> None]
    /\ node_name = [t \in Threads |-> ""]
    /\ observation_space = [t \in Threads |-> {}]
    /\ trace = [t \in Threads |-> <<>>]
    /\ err = [t \in Threads |-> ""]
    /\ last = [t \in Threads |-> NoCall]
    /\ prior = None
    /\ concurrent = [t \in Threads |-> FALSE]

(***************************************************************************)
(* Collaborators of realros.utils.ros_common and rospy.                    *)
(***************************************************************************)
\* ros_common.launch_roscore: the port the new roscore is bound to
BoundPort(p, d) == IF Truthy(d) THEN ToString(DefaultPort) ELSE PortText(p)

\* ros_common.launch_roscore: the value it returns, the port as text
launch_roscore(p, d) == PyStr(BoundPort(p, d))

\* ros_common.is_roscore_running: is a roscore reachable at the default port
is_roscore_running == ToString(DefaultPort) \in running

\* ros_common.change_ros_master: the new ROS_MASTER_URI port
change_ros_master(v) == PortText(v)

\* rospy.init_node reaches the master named by ROS_MASTER_URI
MasterReachable == master \in running

(***************************************************************************)
(* __init__, lines 62 to 97: which roscore to use.                         *)
(***************************************************************************)
Append1(t, e) == [trace EXCEPT ![t] = Append(@, e)]

\* `if new_roscore:` in place of `elif`: the chain goes on after line 70
AfterBranchIf(s) == IF s = "L70" THEN "elif_new_roscore" ELSE "node_name"

\* the node name skipped: the node is registered right after the chain
AfterBranchEarly(s) == "init_node"

\* Where control resumes when a branch of the if/elif/else chain is done:
\* the node name, whichever branch ran.
AfterBranch(s) == "node_name"

\* _launch_roscore(port = p, default_port = d) is called from site s
CallLaunch(t, s, p, d) ==
    /\ site' = [site EXCEPT ![t] = s]
    /\ port' = [port EXCEPT ![t] = p]
    /\ launch_default' = [launch_default EXCEPT ![t] = d]
    /\ pc' = [pc EXCEPT ![t] = "launch_roscore"]

\* thread t is inside __init__
Busy(t) == pc[t] \notin {"idle", "ready", "raised"}

\* A caller constructs an environment: cls(**k), of a task class that
\* overrides at most maxo of the stubs.  ros_port = None (line 62).
Construct(t, maxo) ==
    /\ pc[t] \in {"idle", "ready", "raised"}
    /\ \E c \in Classes, k \in KwargsSet :
         \E o \in {s \in SUBSET Stubs(c) : Cardinality(s) <= maxo} :
            /\ cls' = [cls EXCEPT ![t] = c]
            /\ kwargs' = [kwargs EXCEPT ![t] = k]
            /\ overridden' = [overridden EXCEPT ![t] = o]
    /\ pre' = [pre EXCEPT ![t] = [running |-> running, master |-> master]]
    /\ pc' = [pc EXCEPT ![t] = "if_default_port"]
    /\ site' = [site EXCEPT ![t] = ""]
    /\ port' = [port EXCEPT ![t] = None]
    /\ launch_default' = [launch_default EXCEPT ![t] = PyBool(FALSE)]
    /\ launched' = [launched EXCEPT ![t] = None]
    /\ ros_port' = [ros_port EXCEPT ![t] = None]
    /\ node_name' = [node_name EXCEPT ![t] = ""]
    /\ observation_space' = [observation_space EXCEPT ![t] = {}]
    /\ trace' = [trace EXCEPT ![t] = <<>>]
    /\ err' = [err EXCEPT ![t] = ""]
    /\ last' = [last EXCEPT ![t] = NoCall]
    /\ prior' = IF ros_port[t] # None THEN ros_port[t] ELSE prior
    /\ concurrent' = [u \in Threads |->
                         IF u = t THEN \E v \in Threads \ {t} : Busy(v)
                         ELSE concurrent[u] \/ Busy(u)]
    /\ UNCHANGED <<running, master>>

\* new_roscore tested before default_port
TakesDefaultPortAfterNew(t) ==
    Truthy(Arg(t, "default_port")) /\ ~Truthy(Arg(t, "new_roscore"))

\* line 69: `if default_port:`
TakesDefaultPort(t) == Truthy(Arg(t, "default_port"))

\* roscore_port tested before new_roscore
TakesNewRoscoreAfterPort(t) ==
    Truthy(Arg(t, "new_roscore")) /\ Arg(t, "roscore_port") = None

\* line 73: `elif new_roscore:`
TakesNewRoscore(t) == Truthy(Arg(t, "new_roscore"))

\* line 77: `elif roscore_port is not None:`
TakesRoscorePort(t) == Arg(t, "roscore_port") # None

\* lines 69-70
TestDefaultPort(t) ==
    /\ pc[t] = "if_default_port"
    /\ IF TakesDefaultPort(t)
       THEN CallLaunch(t, "L70", None, Arg(t, "default_port"))
       ELSE /\ pc' = [pc EXCEPT ![t] = "elif_new_roscore"]
            /\ UNCHANGED <<site, port, launch_default>>
    /\ UNCHANGED <<running, master, cls, overridden, kwargs, pre, launched, ros_port,
                   node_name, observation_space, trace, err, last>>
    /\ UNCHANGED history

\* lines 73-74
TestNewRoscore(t) ==
    /\ pc[t] = "elif_new_roscore"
    /\ IF TakesNewRoscore(t)
       THEN CallLaunch(t, "L74", Arg(t, "roscore_port"), PyBool(FALSE))
       ELSE /\ pc' = [pc EXCEPT ![t] = "elif_roscore_port"]
            /\ UNCHANGED <<site, port, launch_default>>
    /\ UNCHANGED <<running, master, cls, overridden, kwargs, pre, launched, ros_port,
                   node_name, observation_space, trace, err, last>>
    /\ UNCHANGED history

\* lines 77-78
TestRoscorePort(t) ==
    /\ pc[t] = "elif_roscore_port"
    /\ IF TakesRoscorePort(t)
       THEN /\ ros_port' = [ros_port EXCEPT ![t] = Arg(t, "roscore_port")]
            /\ pc' = [pc EXCEPT ![t] = "change_ros_master"]
       ELSE /\ pc' = [pc EXCEPT ![t] = "is_roscore_running"]
            /\ UNCHANGED ros_port
    /\ UNCHANGED <<running, master, cls, overridden, kwargs, pre, site, port,
                   launch_default, launched, node_name, observation_space, trace,
                   err, last>>
    /\ UNCHANGED history

\* line 81 left out: the port is kept, ROS_MASTER_URI is not changed
AttachWithoutChange(t) ==
    /\ pc[t] = "change_ros_master"
    /\ pc' = [pc EXCEPT ![t] = "node_name"]
    /\ UNCHANGED <<running, master, cls, overridden, kwargs, pre, site, port,
                   launch_default, launched, ros_port, node_name, observation_space,
                   trace, err, last>>
    /\ UNCHANGED history

\* line 81: ros_common.change_ros_master(ros_port)
AttachChangeRosMaster(t) ==
    /\ pc[t] = "change_ros_master"
    /\ master' = change_ros_master(ros_port[t])
    /\ trace' = Append1(t, Ev("change_ros_master", Repr(ros_port[t]), "", ""))
    /\ pc' = [pc EXCEPT ![t] = AfterBranch("L81")]
    /\ UNCHANGED <<running, cls, overridden, kwargs, pre, site, port, launch_default,
                   launched, ros_port, node_name, observation_space, err, last>>
    /\ UNCHANGED history

\* line 87: `... is False`
ProbeFalseInverted(r) == r = TRUE

ProbeFalse(r) == r = FALSE

\* lines 87-89: `if ros_common.is_roscore_running() is False:` print, launch
Probe(t) ==
    /\ pc[t] = "is_roscore_running"
    /\ IF ProbeFalse(is_roscore_running)
       THEN /\ trace' = [trace EXCEPT ![t] =
                 @ \o << Ev("is_roscore_running", "", "", Repr(PyBool(is_roscore_running))),
                         Ev("print", "roscore is not running! Launching a new roscore!",
                            "", "") >>]
            /\ CallLaunch(t, "L89", Arg(t, "roscore_port"), PyBool(FALSE))
       ELSE /\ trace' = Append1(t, Ev("is_roscore_running", "", "",
                                      Repr(PyBool(is_roscore_running))))
            /\ pc' = [pc EXCEPT ![t] = AfterBranch("L87")]
            /\ UNCHANGED <<site, port, launch_default>>
    /\ UNCHANGED <<running, master, cls, overridden, kwargs, pre, launched, ros_port,
                   node_name, observation_space, err, last>>
    /\ UNCHANGED history

(***************************************************************************)
(* _launch_roscore                                                         *)
(***************************************************************************)
\* the port given by the caller dropped
LaunchPortAlwaysDefault(p) == PyInt(DefaultPort)

\* lines 257-258: `if port is None: port = 11311`
LaunchPort(p) == IF p = None THEN PyInt(DefaultPort) ELSE p

\* the exception of launch_roscore caught and dropped
OnLaunchErrorSwallowed == "node_name"

\* lines 260-261 and the call sites 70, 74, 89 are in no try block: an
\* exception of launch_roscore leaves __init__
OnLaunchError == "raised"

\* lines 257-261: default the port and call ros_common.launch_roscore, which
\* starts the roscore and returns its port, or fails to start it
LaunchRoscore(t) ==
    /\ pc[t] = "launch_roscore"
    /\ port' = [port EXCEPT ![t] = LaunchPort(port[t])]
    /\ \/ /\ running' = running \cup {BoundPort(LaunchPort(port[t]), launch_default[t])}
          /\ launched' = [launched EXCEPT ![t] =
                             launch_roscore(LaunchPort(port[t]), launch_default[t])]
          /\ trace' = Append1(t, Ev("launch_roscore", Repr(LaunchPort(port[t])),
                                    Repr(launch_default[t]),
                                    Repr(launch_roscore(LaunchPort(port[t]),
                                                        launch_default[t]))))
          /\ pc' = [pc EXCEPT ![t] = "launch_change_ros_master"]
          /\ UNCHANGED err
       \/ /\ trace' = Append1(t, Ev("launch_roscore", Repr(LaunchPort(port[t])),
                                    Repr(launch_default[t]), "ProcessLaunchError"))
          /\ err' = [err EXCEPT ![t] = "ProcessLaunchError"]
          /\ pc' = [pc EXCEPT ![t] = OnLaunchError]
          /\ UNCHANGED <<running, launched>>
    /\ UNCHANGED <<master, cls, overridden, kwargs, pre, site, launch_default, ros_port,
                   node_name, observation_space, last>>
    /\ UNCHANGED history

\* line 264 left out: the port is returned, ROS_MASTER_URI is not changed
LaunchReturnWithoutChange(t) ==
    /\ pc[t] = "launch_change_ros_master"
    /\ ros_port' = [ros_port EXCEPT ![t] = launched[t]]
    /\ pc' = [pc EXCEPT ![t] = "node_name"]
    /\ UNCHANGED <<running, master, cls, overridden, kwargs, pre, site, port,
                   launch_default, launched, node_name, observation_space, trace,
                   err, last>>
    /\ UNCHANGED history

\* lines 264-266: ros_common.change_ros_master(ros_port); return ros_port,
\* which the call site assigns to its own ros_port
LaunchChangeRosMaster(t) ==
    /\ pc[t] = "launch_change_ros_master"
    /\ master' = change_ros_master(launched[t])
    /\ trace' = Append1(t, Ev("change_ros_master", Repr(launched[t]), "", ""))
    /\ ros_port' = [ros_port EXCEPT ![t] = launched[t]]
    /\ pc' = [pc EXCEPT ![t] = AfterBranch(site[t])]
    /\ UNCHANGED <<running, cls, overridden, kwargs, pre, site, port, launch_default,
                   launched, node_name, observation_space, err, last>>
    /\ UNCHANGED history

(***************************************************************************)
(* __init__, lines 91 to 97: the node name and the node.                   *)
(***************************************************************************)
\* "TaskEnv" + "_" + ros_port raises TypeError unless ros_port is a str
Concatenable(v) == v.type = "str"

\* the separator left out
NodeNameNoSeparator(v) == IF v # None THEN "TaskEnv" \o v.s ELSE "TaskEnv"

\* lines 92-95
NodeName(v) == IF v # None THEN "TaskEnv" \o "_" \o v.s ELSE "TaskEnv"

ResolveName(t) ==
    /\ pc[t] = "node_name"
    /\ IF ros_port[t] # None /\ ~Concatenable(ros_port[t])
       THEN /\ err' = [err EXCEPT ![t] = "TypeError"]
            /\ pc' = [pc EXCEPT ![t] = "raised"]
            /\ UNCHANGED <<node_name, trace>>
       ELSE /\ node_name' = [node_name EXCEPT ![t] = NodeName(ros_port[t])]
            /\ trace' = Append1(t, Ev("node_name", Repr(ros_port[t]), "",
                                      NodeName(ros_port[t])))
            /\ pc' = [pc EXCEPT ![t] = "init_node"]
            /\ UNCHANGED err
    /\ UNCHANGED <<running, master, cls, overridden, kwargs, pre, site, port,
                   launch_default, launched, ros_port, observation_space, last>>
    /\ UNCHANGED history

\* the goal environment returning once its node is registered
AfterInitNodeGoalReturns(c) == IF c = "MyRealTaskGoalEnv" THEN "ready" ELSE "super_init"

\* What follows rospy.init_node: the goal environment defines its
\* observation space (lines 130-138), the plain one calls super().__init__
AfterInitNode(c) == IF c = "MyRealTaskGoalEnv" THEN "observation_space" ELSE "super_init"

\* the exception of rospy.init_node caught and dropped
OnInitNodeErrorSwallowed == "super_init"

\* line 97 is in no try block: an exception of rospy.init_node leaves __init__
OnInitNodeError == "raised"

\* line 97: rospy.init_node(self.node_name, anonymous=True)
InitNode(t) ==
    /\ pc[t] = "init_node"
    /\ IF MasterReachable
       THEN /\ trace' = Append1(t, Ev("init_node", node_name[t], "anonymous=True", master))
            /\ pc' = [pc EXCEPT ![t] = AfterInitNode(cls[t])]
            /\ UNCHANGED err
       ELSE /\ trace' = Append1(t, Ev("init_node", node_name[t], "anonymous=True",
                                      "ConnectivityError"))
            /\ err' = [err EXCEPT ![t] = "ConnectivityError"]
            /\ pc' = [pc EXCEPT ![t] = OnInitNodeError]
    /\ UNCHANGED <<running, master, cls, overridden, kwargs, pre, site, port,
                   launch_default, launched, ros_port, node_name, observation_space,
                   last>>
    /\ UNCHANGED history

\* the goal keys merged into one
GoalObservationKeysMerged == {"observation", "goal"}

\* MyRealTaskGoalEnv lines 134-138: the keys of spaces.Dict
GoalObservationKeys == {"observation", "achieved_goal", "desired_goal"}

DefineObservationSpace(t) ==
    /\ pc[t] = "observation_space"
    /\ observation_space' = [observation_space EXCEPT ![t] = GoalObservationKeys]
    /\ pc' = [pc EXCEPT ![t] = "super_init"]
    /\ UNCHANGED <<running, master, cls, overridden, kwargs, pre, site, port,
                   launch_default, launched, ros_port, node_name, trace, err, last>>
    /\ UNCHANGED history

\* the caller's roscore_port passed on in place of the resolved port
SuperInitPortOfCaller(t) == Arg(t, "roscore_port")

\* line 136: the keyword ros_port=ros_port of super().__init__
SuperInitPort(t) == ros_port[t]

\* super().__init__(ros_port=ros_port, seed=..., reset_env_prompt=...,
\* action_cycle_time=...), then __init__ returns
SuperInit(t) ==
    /\ pc[t] = "super_init"
    /\ trace' = Append1(t, Ev("super_init", Repr(SuperInitPort(t)), "", ""))
    /\ pc' = [pc EXCEPT ![t] = "ready"]
    /\ UNCHANGED <<running, master, cls, overridden, kwargs, pre, site, port,
                   launch_default, launched, ros_port, node_name, observation_space,
                   err, last>>
    /\ UNCHANGED history

(***************************************************************************)
(* The extension points.                                                   *)
(***************************************************************************)
\* a stub that ends in `pass` and so returns None
StubBodyPass(c, m) == IF m = "_set_init_params" THEN "returned" ELSE "NotImplementedError"

\* The body of every stub of both templates: raise NotImplementedError()
StubBody(c, m) == "NotImplementedError"

\* A caller invokes method m of the constructed environment: the override
\* of the concrete task returns, the template's stub raises
Invoke(t, m) ==
    /\ pc[t] = "ready"
    /\ m \in Stubs(cls[t])
    /\ IF m \in overridden[t]
       THEN /\ last' = [last EXCEPT ![t] = [point |-> m, outcome |-> "returned"]]
            /\ err' = [err EXCEPT ![t] = ""]
       ELSE /\ last' = [last EXCEPT ![t] = [point |-> m, outcome |-> StubBody(cls[t], m)]]
            /\ err' = [err EXCEPT ![t] =
                          IF StubBody(cls[t], m) = "returned" THEN "" ELSE StubBody(cls[t], m)]
    /\ UNCHANGED <<running, master, pc, cls, overridden, kwargs, pre, site, port,
                   launch_default, launched, ros_port, node_name, observation_space,
                   trace>>
    /\ UNCHANGED history

(***************************************************************************)
(* Specifications.                                                         *)
(***************************************************************************)
Step(t) ==
    \/ TestDefaultPort(t)
    \/ TestNewRoscore(t)
    \/ TestRoscorePort(t)
    \/ AttachChangeRosMaster(t)
    \/ Probe(t)
    \/ LaunchRoscore(t)
    \/ LaunchChangeRosMaster(t)
    \/ ResolveName(t)
    \/ InitNode(t)
    \/ DefineObservationSpace(t)
    \/ SuperInit(t)

\* One thread constructs the registered templates, one environment after another
Next ==
    \/ Construct(MainThread, 0)
    \/ Step(MainThread)

Spec == Init /\ [][Next]_vars

AllStubs == UNION {Stubs(c) : c \in Classes}

\* One thread constructs a concrete task and calls its extension points
ConstructTask(t) == pc[t] = "idle" /\ Construct(t, MaxOverridden)

NextTask ==
    \/ ConstructTask(MainThread)
    \/ Step(MainThread)
    \/ \E m \in AllStubs : Invoke(MainThread, m)

SpecTask == Init /\ [][NextTask]_vars

\* Two threads each construct one environment, with no lock around __init__:
\* their collaborator calls interleave in every order, one after the other
\* included.  The callers choose new_roscore and roscore_port, which carry
\* the port preference, and leave default_port at its default.
ConstructConc(t) ==
    /\ pc[t] = "idle"
    /\ Construct(t, 0)
    /\ "default_port" \notin DOMAIN kwargs'[t]

NextConc == \E t \in Threads : ConstructConc(t) \/ Step(t)

SpecConc == Init /\ [][NextConc]_vars

(***************************************************************************)
(* Properties.  What a construction did is read off its trace.             *)
(***************************************************************************)
Resolving ==
    {"if_default_port", "elif_new_roscore", "elif_roscore_port", "change_ros_master",
     "is_roscore_running", "launch_roscore", "launch_change_ros_master"}

\* the if/elif/else chain of thread t has run to its end, or raised
ChainDone(t) == pc[t] \notin (Resolving \cup {"idle"})

\* the chain has run to its end and resolved the endpoint
Resolved(t) == ChainDone(t) /\ err[t] # "ProcessLaunchError"

Events(t, op) == {i \in DOMAIN trace[t] : trace[t][i].op = op}

Has(t, op) == Events(t, op) # {}

\* the node name has been computed
Named(t) == Has(t, "node_name")

DidDefaultLaunch(t) ==
    \E i \in Events(t, "launch_roscore") : trace[t][i].flag = "True"

DidNewLaunch(t) ==
    /\ \E i \in Events(t, "launch_roscore") : trace[t][i].flag = "False"
    /\ ~Has(t, "is_roscore_running")

DidAttach(t) ==
    /\ Has(t, "change_ros_master")
    /\ ~Has(t, "launch_roscore")
    /\ ~Has(t, "is_roscore_running")

DidAutoDetect(t) == Has(t, "is_roscore_running")

Did(t) ==
    {a \in {"default", "new", "attach", "auto"} :
        \/ a = "default" /\ DidDefaultLaunch(t)
        \/ a = "new" /\ DidNewLaunch(t)
        \/ a = "attach" /\ DidAttach(t)
        \/ a = "auto" /\ DidAutoDetect(t)}

\* the values of the three parameters in the call
DP(t) == Arg(t, "default_port") = PyBool(TRUE)
NR(t) == Arg(t, "new_roscore") = PyBool(TRUE)
RP(t) == Arg(t, "roscore_port")

\* the action the priority default_port > new_roscore > roscore_port > auto-detect names
Dictated(t) ==
    IF DP(t) THEN "default"
    ELSE IF NR(t) THEN "new"
    ELSE IF RP(t) # None THEN "attach"
    ELSE "auto"

DefaultText == "11311"

\* C1: once the chain of a construction is done, exactly one of the four
\* actions (default-port launch, new-process launch, attach, auto-detect) was
\* performed, and it is the one the priority default_port > new_roscore >
\* roscore_port supplied > auto-detect names, however many flags are set and
\* whatever roscores are running.
C1_ExactlyOneActionByPriority ==
    \A t \in Threads : ChainDone(t) => Did(t) = {Dictated(t)}

\* C1 witness: all three flags set at once, the default-port launch was done
C1_Witness ==
    /\ pc[MainThread] = "ready"
    /\ DP(MainThread) /\ NR(MainThread) /\ RP(MainThread) # None
    /\ Did(MainThread) = {"default"}

\* C2: a construction calls launch_roscore at most once, and at most one
\* roscore is added to the running ones.
C2_AtMostOneLaunch ==
    \A t \in Threads :
        /\ Cardinality(Events(t, "launch_roscore")) <= 1
        /\ pc[t] # "idle" => Cardinality(running \ pre[t].running) <= 1

\* C2 witness: a finished construction that launched one roscore, with
\* default_port and new_roscore both set
C2_Witness ==
    /\ pc[MainThread] = "ready"
    /\ DP(MainThread) /\ NR(MainThread)
    /\ Cardinality(Events(MainThread, "launch_roscore")) = 1
    /\ Cardinality(running \ pre[MainThread].running) = 1

\* C3: with default_port true, whatever new_roscore and roscore_port are and
\* whatever is running, the chain calls launch_roscore for port 11311 with
\* default_port set and probes nothing; once it has resolved, a roscore runs
\* at 11311 and the resolved port is 11311; the node name is "TaskEnv_11311".
C3_DefaultPortLaunch ==
    \A t \in Threads :
        DP(t) =>
            /\ ChainDone(t) =>
                  /\ Cardinality(Events(t, "launch_roscore")) = 1
                  /\ \A i \in Events(t, "launch_roscore") :
                        trace[t][i].arg = DefaultText /\ trace[t][i].flag = "True"
                  /\ ~Has(t, "is_roscore_running")
            /\ Resolved(t) =>
                  /\ DefaultText \in running
                  /\ ros_port[t] = PyStr(DefaultText)
                  /\ master = DefaultText
            /\ Named(t) => node_name[t] = "TaskEnv_11311"

\* C3 witness: default_port with roscore_port '11312', a roscore already
\* running at 11311, construction finished
C3_Witness ==
    /\ pc[MainThread] = "ready"
    /\ DP(MainThread)
    /\ RP(MainThread) = PyStr("11312")
    /\ DefaultText \in pre[MainThread].running
    /\ node_name[MainThread] = "TaskEnv_11311"

\* C4: with default_port false, new_roscore false and roscore_port = p, the
\* chain launches nothing and probes nothing; the running roscores are those
\* of before, ROS_MASTER_URI has port p, the resolved port is p and the node
\* name is "TaskEnv_" followed by p.
C4_AttachFrame ==
    \A t \in Threads :
        (~DP(t) /\ ~NR(t) /\ RP(t) # None /\ ChainDone(t)) =>
            /\ ~Has(t, "launch_roscore")
            /\ ~Has(t, "is_roscore_running")
            /\ running = pre[t].running
            /\ master = RP(t).s
            /\ ros_port[t] = RP(t)
            /\ Named(t) => node_name[t] = "TaskEnv_" \o RP(t).s

\* C4 witness: attached to 11312 while ROS_MASTER_URI had another port
C4_Witness ==
    /\ pc[MainThread] = "ready"
    /\ ~DP(MainThread) /\ ~NR(MainThread)
    /\ RP(MainThread) = PyStr("11312")
    /\ pre[MainThread].master # "11312"
    /\ master = "11312"
    /\ node_name[MainThread] = "TaskEnv_11312"

\* parameter n was left out of the call, or given as False
UnsetOrFalse(t, n) == n \notin DOMAIN kwargs[t] \/ kwargs[t][n] = PyBool(FALSE)

\* the chain began by probing, printed the notice and then called
\* launch_roscore for port 11311, once
ProbedNoticedLaunched(t) ==
    /\ Len(trace[t]) >= 3
    /\ trace[t][1].op = "is_roscore_running" /\ trace[t][1].res = "False"
    /\ trace[t][2].op = "print"
    /\ trace[t][3].op = "launch_roscore" /\ trace[t][3].arg = DefaultText
    /\ Events(t, "launch_roscore") = {3}
    /\ Resolved(t) => DefaultText \in running

\* the chain began by calling launch_roscore for port 11311, once, and
\* neither probed nor printed
LaunchedUnprobed(t) ==
    /\ Len(trace[t]) >= 1
    /\ trace[t][1].op = "launch_roscore" /\ trace[t][1].arg = DefaultText
    /\ Events(t, "launch_roscore") = {1}
    /\ ~Has(t, "is_roscore_running") /\ ~Has(t, "print")

\* C5 as stated: with default_port, new_roscore and roscore_port each false
\* or left unset and no roscore running, the construction probes, prints the
\* notice and then launches one roscore at 11311.
C5_AsStated ==
    \A t \in Threads :
        ( /\ UnsetOrFalse(t, "default_port")
          /\ UnsetOrFalse(t, "new_roscore")
          /\ "roscore_port" \notin DOMAIN kwargs[t]
          /\ pre[t].running = {}
          /\ Resolved(t) ) => ProbedNoticedLaunched(t)

\* C5 amended: with default_port false or unset, new_roscore given as False,
\* roscore_port unset and no roscore running, the construction probes,
\* prints the notice and then launches one roscore at 11311; with new_roscore
\* left unset (its default is True) it launches one roscore at 11311 without
\* probing and without the notice.
C5_AutoDetectFallback ==
    \A t \in Threads :
        ( /\ UnsetOrFalse(t, "default_port")
          /\ "roscore_port" \notin DOMAIN kwargs[t]
          /\ pre[t].running = {}
          /\ ChainDone(t) ) =>
            /\ ("new_roscore" \in DOMAIN kwargs[t] /\ ~NR(t)) => ProbedNoticedLaunched(t)
            /\ "new_roscore" \notin DOMAIN kwargs[t] => LaunchedUnprobed(t)

\* C5 witness: new_roscore=False alone, nothing running: probe, notice,
\* launch at 11311, construction finished
C5_Witness ==
    /\ pc[MainThread] = "ready"
    /\ kwargs[MainThread] = [new_roscore |-> PyBool(FALSE)]
    /\ pre[MainThread].running = {}
    /\ ProbedNoticedLaunched(MainThread)
    /\ running = {DefaultText}

\* C6: with default_port false and new_roscore true, the chain calls
\* launch_roscore once, for roscore_port if it was given and for 11311 if
\* not, and probes nothing; once resolved, a roscore runs at that port and
\* the resolved port is the value launch_roscore returned.
C6_NewRoscoreLaunch ==
    \A t \in Threads :
        (~DP(t) /\ NR(t) /\ ChainDone(t)) =>
            /\ Cardinality(Events(t, "launch_roscore")) = 1
            /\ ~Has(t, "is_roscore_running")
            /\ \A i \in Events(t, "launch_roscore") :
                  /\ trace[t][i].flag = "False"
                  /\ trace[t][i].arg = IF RP(t) = None THEN DefaultText ELSE Repr(RP(t))
                  /\ Resolved(t) => trace[t][i].res = Repr(ros_port[t])
            /\ Resolved(t) =>
                  /\ (IF RP(t) = None THEN DefaultText ELSE RP(t).s) \in running
                  /\ ros_port[t] = PyStr(IF RP(t) = None THEN DefaultText ELSE RP(t).s)

\* C6 witness: new_roscore with roscore_port '11312' while a roscore runs at
\* 11311: launched at 11312, construction finished
C6_Witness ==
    /\ pc[MainThread] = "ready"
    /\ ~DP(MainThread) /\ NR(MainThread)
    /\ RP(MainThread) = PyStr("11312")
    /\ pre[MainThread].running = {DefaultText}
    /\ running = {DefaultText, "11312"}
    /\ ros_port[MainThread] = PyStr("11312")

Rank(op) ==
    CASE op = "node_name" -> 1
      [] op = "init_node" -> 2
      [] op = "super_init" -> 3
      [] OTHER -> 0

\* C7: in every construction the steps come in one order: the calls of the
\* chain (probe, launch, change of master), then the node name, then
\* init_node, then super().__init__; a later step happens only after the
\* earlier ones, and an extension point is called only after all of them.
C7_ConstructionOrder ==
    \A t \in Threads :
        /\ \A i, j \in DOMAIN trace[t] :
              i < j => \/ Rank(trace[t][i].op) < Rank(trace[t][j].op)
                       \/ Rank(trace[t][i].op) = 0 /\ Rank(trace[t][j].op) = 0
        /\ Named(t) => ChainDone(t)
        /\ Has(t, "init_node") => Named(t)
        /\ Has(t, "super_init") =>
              \E i \in Events(t, "init_node") : trace[t][i].res # "ConnectivityError"
        /\ last[t] # NoCall => Has(t, "super_init")

\* C7 witness: a construction that launched, named, registered and called the
\* base class, and then had an extension point called
C7_Witness ==
    /\ Has(MainThread, "launch_roscore")
    /\ Has(MainThread, "super_init")
    /\ last[MainThread] # NoCall

\* C8 as stated: whenever the node name is computed, the resolved port is
\* not None.
C8_AsStated ==
    \A t \in Threads : Named(t) => ros_port[t] # None

\* C8 amended: whenever the node name is computed, the resolved port is not
\* None, except in the auto-detect case with a roscore already running at
\* the default port, where it is None.
C8_PortResolvedUnlessAutoDetected ==
    \A t \in Threads :
        Named(t) =>
            (ros_port[t] = None <=>
                (Dictated(t) = "auto" /\ DefaultText \in pre[t].running))

\* C8 witness: a launching construction whose node name is computed from a
\* port that is not None
C8_Witness ==
    /\ Named(MainThread)
    /\ Dictated(MainThread) = "auto"
    /\ DefaultText \notin pre[MainThread].running
    /\ ros_port[MainThread] = PyStr(DefaultText)

\* C9: the node name depends on the resolved port only: "TaskEnv_" followed
\* by the port when there is one, given by the caller or returned by a
\* launch that defaulted to 11311, and "TaskEnv" when there is none; it is
\* never empty and computing it never raises.
C9_NodeNameOfPort ==
    \A t \in Threads :
        /\ err[t] # "TypeError"
        /\ Named(t) =>
              /\ node_name[t] # ""
              /\ ros_port[t] = None => node_name[t] = "TaskEnv"
              /\ ros_port[t] # None => node_name[t] = "TaskEnv_" \o PortText(ros_port[t])
              /\ ros_port[t] = PyStr("11311") => node_name[t] = "TaskEnv_11311"
              /\ ros_port[t] = PyStr("11312") => node_name[t] = "TaskEnv_11312"
              /\ \A u \in Threads :
                    (Named(u) /\ ros_port[u] = ros_port[t]) => node_name[u] = node_name[t]

\* C9 witness: no port given, the launch defaulted to 11311
C9_Witness ==
    /\ Named(MainThread)
    /\ kwargs[MainThread] = NoKwargs
    /\ trace[MainThread][1].op = "launch_roscore"
    /\ trace[MainThread][1].arg = DefaultText
    /\ node_name[MainThread] = "TaskEnv_11311"

\* C10: calling an extension point the concrete task does not override
\* raises NotImplementedError and returns nothing; NotImplementedError is
\* raised by such a call only, never by the construction.
C10_StubsRaise ==
    \A t \in Threads :
        /\ (last[t] # NoCall /\ last[t].point \notin overridden[t]) =>
              /\ last[t].outcome = "NotImplementedError"
              /\ err[t] = "NotImplementedError"
        /\ err[t] = "NotImplementedError" =>
              /\ pc[t] = "ready"
              /\ last[t] # NoCall
              /\ last[t].point \notin overridden[t]

\* C10 witness: a goal task that overrides _set_action only was constructed
\* without error, and its _get_achieved_goal raised
C10_Witness ==
    /\ pc[MainThread] = "ready"
    /\ cls[MainThread] = "MyRealTaskGoalEnv"
    /\ overridden[MainThread] = {"_set_action"}
    /\ last[MainThread] = [point |-> "_get_achieved_goal", outcome |-> "NotImplementedError"]

\* the construction of thread t has changed ROS_MASTER_URI: it attached, or
\* it launched and _launch_roscore returned
Wrote(t) == Resolved(t) /\ ros_port[t] # None

\* the successful registrations of the construction of thread t
Registered(t) ==
    {i \in Events(t, "init_node") : trace[t][i].res # "ConnectivityError"}

\* C11: in a sequence of constructions made one after another, the address
\* ROS_MASTER_URI is, after each construction, the port of that construction
\* if it launched or attached, and otherwise the address the constructions
\* before it left (last writer wins); a construction that neither launches
\* nor attaches registers its node at the address left by the earlier ones.
C11_LastWriterWins ==
    \A t \in Threads :
        /\ Wrote(t) => master = PortText(ros_port[t])
        /\ (ChainDone(t) /\ ~Wrote(t)) =>
              /\ master = pre[t].master
              /\ prior # None => master = PortText(prior)
        /\ (ChainDone(t) /\ ros_port[t] = None) =>
              \A i \in Registered(t) : trace[t][i].res = pre[t].master

\* C11 witness: an earlier construction left the address at 11312; a later
\* one auto-detected the roscore at 11311, changed nothing and registered
\* its node at 11312
C11_Witness ==
    /\ pc[MainThread] = "ready"
    /\ Dictated(MainThread) = "auto"
    /\ ros_port[MainThread] = None
    /\ prior = PyStr("11312")
    /\ master = "11312"
    /\ \E i \in Registered(MainThread) : trace[MainThread][i].res = "11312"

\* C12: when launch_roscore fails to start the roscore, the construction
\* ends with that error: one launch call and no other, ROS_MASTER_URI and
\* the running roscores as before, no node name, no node registered, the
\* base class not initialised.
C12_LaunchFailureIsFatal ==
    \A t \in Threads :
        err[t] = "ProcessLaunchError" =>
            /\ pc[t] = "raised"
            /\ Cardinality(Events(t, "launch_roscore")) = 1
            /\ trace[t][Len(trace[t])].op = "launch_roscore"
            /\ ~Has(t, "change_ros_master")
            /\ master = pre[t].master
            /\ running = pre[t].running
            /\ ros_port[t] = None
            /\ node_name[t] = ""
            /\ ~Has(t, "init_node")
            /\ ~Has(t, "super_init")

\* C12 witness: the auto-detect fallback launch failed
C12_Witness ==
    /\ err[MainThread] = "ProcessLaunchError"
    /\ pc[MainThread] = "raised"
    /\ Has(MainThread, "is_roscore_running")
    /\ Cardinality(Events(MainThread, "launch_roscore")) = 1

\* C13: once the goal environment has assigned its observation space, the
\* space has exactly the keys observation, achieved_goal and desired_goal,
\* whatever the arguments; it is assigned before super().__init__ is called,
\* and the plain environment assigns none.
C13_GoalObservationSpace ==
    \A t \in Threads :
        /\ observation_space[t] # {} =>
              /\ cls[t] = "MyRealTaskGoalEnv"
              /\ observation_space[t] = {"observation", "achieved_goal", "desired_goal"}
              /\ Cardinality(observation_space[t]) = 3
        /\ (cls[t] = "MyRealTaskGoalEnv" /\ (pc[t] = "super_init" \/ Has(t, "super_init"))) =>
              observation_space[t] = {"observation", "achieved_goal", "desired_goal"}
        /\ pc[t] = "observation_space" => ~Has(t, "super_init")

\* C13 witness: a goal environment constructed with default_port, its
\* observation space assigned, the base class not yet initialised
C13_Witness ==
    /\ cls[MainThread] = "MyRealTaskGoalEnv"
    /\ DP(MainThread)
    /\ pc[MainThread] = "super_init"
    /\ ~Has(MainThread, "super_init")
    /\ Cardinality(observation_space[MainThread]) = 3

(***************************************************************************)
(* C14.  Two constructions interleaved, and the same two serialized.       *)
(***************************************************************************)
\* thread t registered its node while ROS_MASTER_URI held a port other than
\* the one t resolved
Mismatch(t) ==
    /\ ros_port[t] # None
    /\ \E i \in Registered(t) : trace[t][i].res # PortText(ros_port[t])

\* C14: a node is registered under the other environment's port only in a
\* construction that ran while another thread was inside __init__; of two
\* constructions made one after the other, each registers under its own port.
C14_MismatchOnlyWhenInterleaved ==
    \A t \in Threads : Mismatch(t) => concurrent[t]

\* both environments are constructed with different ports, and the first
\* registered its node while ROS_MASTER_URI held the port of the second
C14_Witness ==
    /\ pc["t1"] = "ready" /\ pc["t2"] = "ready"
    /\ ros_port["t1"] # None /\ ros_port["t2"] # None
    /\ PortText(ros_port["t1"]) # PortText(ros_port["t2"])
    /\ \E i \in Registered("t1") : trace["t1"][i].res = PortText(ros_port["t2"])
    /\ concurrent["t1"]

(***************************************************************************)
(* C15.  Auto-detect with a roscore already running.                       *)
(***************************************************************************)
\* the call names the auto-detect branch and a roscore answered at 11311
\* when __init__ was entered
AutoDetectReachable(t) ==
    /\ pc[t] # "idle"
    /\ Dictated(t) = "auto"
    /\ DefaultText \in pre[t].running

\* C15: with default_port and new_roscore false, no roscore_port and a
\* roscore already running, the construction starts no roscore and leaves
\* ROS_MASTER_URI as it found it; ros_port stays None, the node name is
\* "TaskEnv", and super().__init__ is called with ros_port=None.
C15_AutoDetectNoAction ==
    \A t \in Threads :
        AutoDetectReachable(t) =>
            /\ ~Has(t, "launch_roscore")
            /\ ~Has(t, "change_ros_master")
            /\ ~Has(t, "print")
            /\ running = pre[t].running
            /\ master = pre[t].master
            /\ ros_port[t] = None
            /\ err[t] # "ProcessLaunchError"
            /\ Named(t) => node_name[t] = "TaskEnv"
            /\ \A i \in Events(t, "super_init") : trace[t][i].arg = "None"
            /\ pc[t] = "ready" => Has(t, "super_init")

\* new_roscore=False alone with a roscore running at 11311: the environment
\* is constructed, after a probe that answered True, with name "TaskEnv"
C15_Witness ==
    /\ pc[MainThread] = "ready"
    /\ AutoDetectReachable(MainThread)
    /\ kwargs[MainThread] = [new_roscore |-> PyBool(FALSE)]
    /\ \E i \in Events(MainThread, "is_roscore_running") : trace[MainThread][i].res = "True"
    /\ node_name[MainThread] = "TaskEnv"
    /\ \E i \in Events(MainThread, "super_init") : trace[MainThread][i].arg = "None"

(***************************************************************************)
(* C16.  _launch_roscore: start, rebind, return.                           *)
(***************************************************************************)
\* the launch sites of __init__: lines 70, 74 and 89
LaunchSites == {"L70", "L74", "L89"}

\* C16: whichever call site reached _launch_roscore, a launch that succeeded
\* has started the roscore before ROS_MASTER_URI is changed, the next call is
\* change_ros_master with the port launch_roscore returned, and only then
\* does the call site get that port: a construction whose resolution
\* launched has ROS_MASTER_URI equal to its resolved port until the name is
\* computed.
C16_LaunchThenRebind ==
    \A t \in Threads :
        /\ pc[t] = "launch_change_ros_master" =>
              /\ site[t] \in LaunchSites
              /\ ros_port[t] = None
              /\ BoundPort(port[t], launch_default[t]) \in running
              /\ trace[t][Len(trace[t])].op = "launch_roscore"
              /\ trace[t][Len(trace[t])].res = Repr(launched[t])
        /\ \A i \in Events(t, "launch_roscore") :
              (trace[t][i].res # "ProcessLaunchError" /\ i < Len(trace[t])) =>
                  /\ trace[t][i + 1].op = "change_ros_master"
                  /\ trace[t][i + 1].arg = trace[t][i].res
        /\ (Has(t, "launch_roscore") /\ Resolved(t)) =>
              /\ site[t] \in LaunchSites
              /\ ros_port[t] = launched[t]
              /\ Has(t, "change_ros_master")
              /\ master = PortText(ros_port[t])
              /\ master \in running

\* the auto-detect fallback (line 89) launched, and the chain has just ended
\* with ROS_MASTER_URI at the port the launch returned
C16_Witness ==
    /\ pc[MainThread] = "node_name"
    /\ site[MainThread] = "L89"
    /\ Len(trace[MainThread]) = 4
    /\ trace[MainThread][3].op = "launch_roscore"
    /\ trace[MainThread][4].op = "change_ros_master"
    /\ trace[MainThread][4].arg = trace[MainThread][3].res
    /\ pre[MainThread].master # master
    /\ master = PortText(ros_port[MainThread])

(***************************************************************************)
(* C17.  Attaching to a port where no roscore runs.                        *)
(***************************************************************************)
\* the call names the attach branch, for a port where nothing ran when
\* __init__ was entered
AttachUnreachable(t) ==
    /\ pc[t] # "idle"
    /\ Dictated(t) = "attach"
    /\ RP(t).s \notin pre[t].running

\* C17: attaching to a port where no roscore runs raises nothing while the
\* endpoint is resolved: change_ros_master returns, having changed
\* ROS_MASTER_URI and nothing else.  The construction then fails in
\* rospy.init_node with a connectivity error, and super().__init__ is never
\* called.
C17_AttachFailsAtRegistration ==
    \A t \in Threads :
        AttachUnreachable(t) =>
            /\ running = pre[t].running
            /\ ~Has(t, "launch_roscore")
            /\ err[t] # "ProcessLaunchError"
            /\ \A i \in DOMAIN trace[t] :
                  trace[t][i].op # "init_node" => trace[t][i].res # "ConnectivityError"
            /\ ChainDone(t) =>
                  /\ Resolved(t)
                  /\ master = RP(t).s
                  /\ ros_port[t] = RP(t)
                  /\ trace[t][1] = Ev("change_ros_master", Repr(RP(t)), "", "")
            /\ pc[t] # "ready"
            /\ pc[t] \notin {"observation_space", "super_init"}
            /\ ~Has(t, "super_init")
            /\ observation_space[t] = {}
            /\ Has(t, "init_node") =>
                  /\ pc[t] = "raised"
                  /\ err[t] = "ConnectivityError"
                  /\ trace[t][Len(trace[t])].op = "init_node"
                  /\ trace[t][Len(trace[t])].res = "ConnectivityError"
            /\ pc[t] = "raised" => Has(t, "init_node")

\* new_roscore=False, roscore_port="11312" with nothing running at 11312:
\* the address was rebound from 11311 to 11312 and init_node then failed
C17_Witness ==
    /\ pc[MainThread] = "raised"
    /\ AttachUnreachable(MainThread)
    /\ RP(MainThread) = PyStr("11312")
    /\ pre[MainThread].master = "11311"
    /\ master = "11312"
    /\ err[MainThread] = "ConnectivityError"
    /\ Has(MainThread, "node_name")
    /\ ~Has(MainThread, "super_init")

(***************************************************************************)
(* C19.  One port for the name, the registration and the base class.       *)
(***************************************************************************)
\* the port that follows "TaskEnv_" in the names thread t computed
NameSuffixPorts(t) ==
    {p \in PortTexts : \E i \in Events(t, "node_name") : trace[t][i].res = "TaskEnv_" \o p}

\* the value of ROS_MASTER_URI at the registrations of thread t
RegistrationPorts(t) == {trace[t][i].res : i \in Registered(t)}

\* the ros_port arguments thread t gave to super().__init__
BaseInitPorts(t) == {trace[t][i].arg : i \in Events(t, "super_init")}

\* C19: in a construction that resolved a port, made with no other
\* construction under way, the node name ends in that port, ROS_MASTER_URI
\* holds that port when rospy.init_node is called, and super().__init__ gets
\* that port as ros_port.
C19_OnePort ==
    \A t \in Threads :
        (Resolved(t) /\ ros_port[t] # None) =>
            /\ Named(t) =>
                  /\ node_name[t] = "TaskEnv_" \o PortText(ros_port[t])
                  /\ NameSuffixPorts(t) = {PortText(ros_port[t])}
            /\ pc[t] = "init_node" => master = PortText(ros_port[t])
            /\ \A i \in Events(t, "init_node") : trace[t][i].arg = node_name[t]
            /\ RegistrationPorts(t) \subseteq {PortText(ros_port[t])}
            /\ BaseInitPorts(t) \subseteq {Repr(ros_port[t])}
            /\ pc[t] = "ready" =>
                  /\ RegistrationPorts(t) = {PortText(ros_port[t])}
                  /\ BaseInitPorts(t) = {Repr(ros_port[t])}

\* default_port=True with roscore_port="11312": the port resolved is 11311,
\* and the name, the registration and super().__init__ all have 11311
C19_Witness ==
    /\ pc[MainThread] = "ready"
    /\ DP(MainThread)
    /\ RP(MainThread) = PyStr("11312")
    /\ ros_port[MainThread] = PyStr("11311")
    /\ NameSuffixPorts(MainThread) = {"11311"}
    /\ RegistrationPorts(MainThread) = {"11311"}
    /\ BaseInitPorts(MainThread) = {"'11311'"}

(***************************************************************************)
(* C18.  The two templates construct alike.  The calls a construction      *)
(* makes are written as a function of the arguments k of the call, of the  *)
(* roscores p.running and the address p.master found at entry, and of      *)
(* whether launch_roscore succeeds; the class is no argument of it.        *)
(***************************************************************************)
ArgOf(k, n) == IF n \in DOMAIN k THEN k[n] ELSE Defaults[n]

\* the branch of the chain the arguments k select
BranchOf(k) ==
    IF Truthy(ArgOf(k, "default_port")) THEN "default"
    ELSE IF Truthy(ArgOf(k, "new_roscore")) THEN "new"
    ELSE IF ArgOf(k, "roscore_port") # None THEN "attach"
    ELSE "auto"

\* the construction calls _launch_roscore
Launches(k, p) ==
    \/ BranchOf(k) \in {"default", "new"}
    \/ BranchOf(k) = "auto" /\ DefaultText \notin p.running

\* the arguments of that call
LaunchArgs(k) ==
    IF BranchOf(k) = "default"
    THEN [port |-> PyInt(DefaultPort), flag |-> ArgOf(k, "default_port")]
    ELSE [port |-> LaunchPort(ArgOf(k, "roscore_port")), flag |-> PyBool(FALSE)]

\* the port the chain resolves when no call fails
PortOf(k, p) ==
    IF Launches(k, p) THEN launch_roscore(LaunchArgs(k).port, LaunchArgs(k).flag)
    ELSE ArgOf(k, "roscore_port")

MasterOf(k, p) == IF PortOf(k, p) = None THEN p.master ELSE PortText(PortOf(k, p))

RunningOf(k, p) ==
    IF Launches(k, p)
    THEN p.running \cup {BoundPort(LaunchArgs(k).port, LaunchArgs(k).flag)}
    ELSE p.running

ProbeCalls(k, p) ==
    IF BranchOf(k) # "auto" THEN << >>
    ELSE IF DefaultText \in p.running
         THEN << Ev("is_roscore_running", "", "", "True") >>
         ELSE << Ev("is_roscore_running", "", "", "False"),
                 Ev("print", "roscore is not running! Launching a new roscore!", "", "") >>

ResolveCalls(k, p, ok) ==
    ProbeCalls(k, p) \o
    ( IF Launches(k, p)
      THEN IF ok
           THEN << Ev("launch_roscore", Repr(LaunchArgs(k).port), Repr(LaunchArgs(k).flag),
                      Repr(PortOf(k, p))),
                   Ev("change_ros_master", Repr(PortOf(k, p)), "", "") >>
           ELSE << Ev("launch_roscore", Repr(LaunchArgs(k).port), Repr(LaunchArgs(k).flag),
                      "ProcessLaunchError") >>
      ELSE IF BranchOf(k) = "attach"
           THEN << Ev("change_ros_master", Repr(PortOf(k, p)), "", "") >>
           ELSE << >> )

RegisterCalls(k, p) ==
    << Ev("node_name", Repr(PortOf(k, p)), "", NodeName(PortOf(k, p))) >> \o
    ( IF MasterOf(k, p) \in RunningOf(k, p)
      THEN << Ev("init_node", NodeName(PortOf(k, p)), "anonymous=True", MasterOf(k, p)),
              Ev("super_init", Repr(PortOf(k, p)), "", "") >>
      ELSE << Ev("init_node", NodeName(PortOf(k, p)), "anonymous=True",
                 "ConnectivityError") >> )

\* the calls, the address and the node name a construction ends with
ExpectedOutcome(k, p, ok) ==
    IF Launches(k, p) /\ ~ok
    THEN [calls |-> ResolveCalls(k, p, FALSE), master |-> p.master, node_name |-> ""]
    ELSE [calls |-> ResolveCalls(k, p, TRUE) \o RegisterCalls(k, p),
          master |-> MasterOf(k, p),
          node_name |-> NodeName(PortOf(k, p))]

Outcome(t) == [calls |-> trace[t], master |-> master, node_name |-> node_name[t]]

IsPrefix(s, q) == Len(s) <= Len(q) /\ \A i \in DOMAIN s : s[i] = q[i]

\* C18: a construction of either template makes, in order, the calls that the
\* arguments, the state found at entry and the outcome of the launch
\* determine, and ends with the address and the node name they determine;
\* the template constructed has no part in any of them, so MyRealTaskEnv and
\* MyRealTaskGoalEnv make the same calls with the same arguments and leave
\* the same address and node name.
C18_SameConstruction ==
    \A t \in Threads :
        pc[t] # "idle" =>
            /\ \E ok \in BOOLEAN :
                  IsPrefix(trace[t], ExpectedOutcome(kwargs[t], pre[t], ok).calls)
            /\ pc[t] \in {"ready", "raised"} =>
                  Outcome(t) = ExpectedOutcome(kwargs[t], pre[t],
                                               err[t] # "ProcessLaunchError")

\* the goal environment is constructed by the auto-detect fallback: probe,
\* notice, launch, rebind, name, registration, base initialisation, as the
\* plain environment does
C18_Witness ==
    /\ pc[MainThread] = "ready"
    /\ cls[MainThread] = "MyRealTaskGoalEnv"
    /\ observation_space[MainThread] = GoalObservationKeys
    /\ BranchOf(kwargs[MainThread]) = "auto"
    /\ Len(trace[MainThread]) = 7
    /\ Outcome(MainThread) = ExpectedOutcome(kwargs[MainThread], pre[MainThread], TRUE)
    /\ master # pre[MainThread].master

====
